---- MODULE Spec2Model ----
(***************************************************************************)
(* Model of check_reason.py: the interpreter of a grader model's raw       *)
(* response (evaluate_reasoning_with_model) and the batch driver           *)
(* (process_json_file).                                                    *)
(*                                                                         *)
(* Text is modelled as TLA+ strings and decoded character by character.    *)
(* JSON values in memory are tagged records:                               *)
(*   [t |-> "str", s]   [t |-> "int", n]   [t |-> "real", s]               *)
(*   [t |-> "bool", b]  [t |-> "null"]     [t |-> "list", items]           *)
(*   [t |-> "dict", keys, vals]   (a Python dict: insertion ordered)       *)
(*   [t |-> "float", num, den]    (the quotient of a true division)        *)
(* A JSON document on disk is the same tree, except that an object is      *)
(*   [t |-> "object", pairs]      (members in file order, names may repeat)*)
(***************************************************************************)
EXTENDS Integers, Sequences, FiniteSets, TLC

\* ------------------------------------------------------------------------
\* Values
\* ------------------------------------------------------------------------
JNull == [t |-> "null"]
JStr(s) == [t |-> "str", s |-> s]
JInt(n) == [t |-> "int", n |-> n]
JReal(s) == [t |-> "real", s |-> s]
JBool(b) == [t |-> "bool", b |-> b]
JList(items) == [t |-> "list", items |-> items]
EmptyDict == [t |-> "dict", keys |-> <<>>, vals |-> <<>>]
JObject(pairs) == [t |-> "object", pairs |-> pairs]

IsDict(v) == v.t = "dict"
IsStr(v) == v.t = "str"

\* position of key k in the dict d, 0 when absent
KeyPos(d, k) ==
    IF \E i \in 1..Len(d.keys) : d.keys[i] = k
    THEN CHOOSE i \in 1..Len(d.keys) : d.keys[i] = k
    ELSE 0

HasKey(d, k) == KeyPos(d, k) # 0

\* d[k] for a key that is present
DictItem(d, k) == d.vals[KeyPos(d, k)]

\* dict.get(k, default)
DictGet(d, k, default) == IF HasKey(d, k) THEN DictItem(d, k) ELSE default

\* d[k] = v : an existing key keeps its position and takes the new value,
\* a new key is appended
DictSet(d, k, v) ==
    IF HasKey(d, k)
    THEN [d EXCEPT !.vals[KeyPos(d, k)] = v]
    ELSE [d EXCEPT !.keys = Append(@, k), !.vals = Append(@, v)]

\* ------------------------------------------------------------------------
\* Characters
\* ------------------------------------------------------------------------
\* the character of s at position i, "" past the end
Ch(s, i) == IF i >= 1 /\ i <= Len(s) THEN SubSeq(s, i, i) ELSE ""

Upper == <<"A","B","C","D","E","F","G","H","I","J","K","L","M",
           "N","O","P","Q","R","S","T","U","V","W","X","Y","Z">>
LowerOf == <<"a","b","c","d","e","f","g","h","i","j","k","l","m",
             "n","o","p","q","r","s","t","u","v","w","x","y","z">>

LowerCh(c) ==
    IF \E i \in 1..Len(Upper) : Upper[i] = c
    THEN LowerOf[CHOOSE i \in 1..Len(Upper) : Upper[i] = c]
    ELSE c

RECURSIVE LowerFrom(_, _)
LowerFrom(s, i) ==
    IF i > Len(s) THEN "" ELSE LowerCh(Ch(s, i)) \o LowerFrom(s, i + 1)

\* str.lower()
Lower(s) == LowerFrom(s, 1)

Digits == <<"0","1","2","3","4","5","6","7","8","9">>
IsDigit(c) == \E i \in 1..Len(Digits) : Digits[i] = c
DigitVal(c) == (CHOOSE i \in 1..Len(Digits) : Digits[i] = c) - 1

\* json.decoder.WHITESPACE
JsonWs == {" ", "\t", "\n", "\r"}

\* characters json's strict string scanner rejects inside a string literal
ControlChars == {"\t", "\n", "\r", "\f"}

RECURSIVE SkipWs(_, _)
SkipWs(s, i) == IF Ch(s, i) \in JsonWs THEN SkipWs(s, i + 1) ELSE i

\* ------------------------------------------------------------------------
\* json.loads
\* ------------------------------------------------------------------------
Fail(i) == [ok |-> FALSE, v |-> JNull, i |-> i]
Ok(v, i) == [ok |-> TRUE, v |-> v, i |-> i]

\* json.decoder.BACKSLASH (the \uXXXX escape is outside the modelled alphabet)
Unescape(c) ==
    CASE c = "\"" -> "\""
      [] c = "\\" -> "\\"
      [] c = "/" -> "/"
      [] c = "n" -> "\n"
      [] c = "t" -> "\t"
      [] c = "r" -> "\r"
      [] c = "f" -> "\f"
      [] OTHER -> ""

\* scanstring: i is the position after the opening quote
RECURSIVE ScanString(_, _, _)
ScanString(s, i, acc) ==
    LET c == Ch(s, i) IN
    IF c = "" \/ c \in ControlChars THEN Fail(i)
    ELSE IF c = "\"" THEN [ok |-> TRUE, v |-> acc, i |-> i + 1]
    ELSE IF c = "\\"
         THEN IF Unescape(Ch(s, i + 1)) = "" THEN Fail(i)
              ELSE ScanString(s, i + 2, acc \o Unescape(Ch(s, i + 1)))
    ELSE ScanString(s, i + 1, acc \o c)

RECURSIVE DigitsEnd(_, _)
DigitsEnd(s, i) == IF IsDigit(Ch(s, i)) THEN DigitsEnd(s, i + 1) ELSE i

RECURSIVE DigitsValue(_, _, _, _)
DigitsValue(s, i, j, acc) ==
    IF i >= j THEN acc ELSE DigitsValue(s, i + 1, j, 10 * acc + DigitVal(Ch(s, i)))

\* json.scanner.NUMBER_RE: (-?(?:0|[1-9]\d*))(\.\d+)?([eE][-+]?\d+)?
ScanNumber(s, i) ==
    LET neg == Ch(s, i) = "-"
        a == IF neg THEN i + 1 ELSE i
        b == IF Ch(s, a) = "0" THEN a + 1 ELSE DigitsEnd(s, a)
        f == IF Ch(s, b) = "." /\ IsDigit(Ch(s, b + 1)) THEN DigitsEnd(s, b + 1) ELSE b
        e == IF Ch(s, f) \in {"e", "E"} /\ IsDigit(Ch(s, IF Ch(s, f + 1) \in {"-", "+"}
                                                          THEN f + 2 ELSE f + 1))
             THEN DigitsEnd(s, IF Ch(s, f + 1) \in {"-", "+"} THEN f + 2 ELSE f + 1)
             ELSE f
    IN  IF b = a THEN Fail(i)
        ELSE IF e = b
             THEN Ok(JInt(IF neg THEN 0 - DigitsValue(s, a, b, 0)
                          ELSE DigitsValue(s, a, b, 0)), b)
             ELSE Ok(JReal(SubSeq(s, i, e - 1)), e)

Literal(s, i, word) ==
    i + Len(word) - 1 <= Len(s) /\ SubSeq(s, i, i + Len(word) - 1) = word

RECURSIVE ParseValue(_, _)
RECURSIVE ParseMembers(_, _, _)
RECURSIVE ParseElements(_, _, _)

\* JSONObject's loop: i is at the opening quote of a member's name
ParseMembers(s, i, d) ==
    LET k == ScanString(s, i + 1, "")
        c == SkipWs(s, k.i)
        val == ParseValue(s, SkipWs(s, c + 1))
        d2 == DictSet(d, k.v, val.v)
        e == SkipWs(s, val.i)
        q == SkipWs(s, e + 1)
    IN  IF ~k.ok THEN Fail(i)
        ELSE IF Ch(s, c) # ":" THEN Fail(c)
        ELSE IF ~val.ok THEN Fail(val.i)
        ELSE IF Ch(s, e) = "}" THEN Ok(d2, e + 1)
        ELSE IF Ch(s, e) # "," THEN Fail(e)
        ELSE IF Ch(s, q) # "\"" THEN Fail(q)
        ELSE ParseMembers(s, q, d2)

\* JSONArray's loop: i is at the first character of an element
ParseElements(s, i, items) ==
    LET val == ParseValue(s, i)
        e == SkipWs(s, val.i)
    IN  IF ~val.ok THEN Fail(val.i)
        ELSE IF Ch(s, e) = "]" THEN Ok(JList(Append(items, val.v)), e + 1)
        ELSE IF Ch(s, e) # "," THEN Fail(e)
        ELSE ParseElements(s, SkipWs(s, e + 1), Append(items, val.v))

\* json.scanner.py_make_scanner._scan_once
ParseValue(s, i) ==
    LET c == Ch(s, i) IN
    CASE c = "\"" -> LET r == ScanString(s, i + 1, "")
                     IN IF r.ok THEN Ok(JStr(r.v), r.i) ELSE Fail(r.i)
      [] c = "{" -> LET j == SkipWs(s, i + 1)
                    IN IF Ch(s, j) = "}" THEN Ok(EmptyDict, j + 1)
                       ELSE IF Ch(s, j) # "\"" THEN Fail(j)
                       ELSE ParseMembers(s, j, EmptyDict)
      [] c = "[" -> LET j == SkipWs(s, i + 1)
                    IN IF Ch(s, j) = "]" THEN Ok(JList(<<>>), j + 1)
                       ELSE ParseElements(s, j, <<>>)
      [] c = "n" /\ Literal(s, i, "null") -> Ok(JNull, i + 4)
      [] c = "t" /\ Literal(s, i, "true") -> Ok(JBool(TRUE), i + 4)
      [] c = "f" /\ Literal(s, i, "false") -> Ok(JBool(FALSE), i + 5)
      [] c = "N" /\ Literal(s, i, "NaN") -> Ok(JReal("NaN"), i + 3)
      [] c = "I" /\ Literal(s, i, "Infinity") -> Ok(JReal("Infinity"), i + 8)
      [] c = "-" /\ Literal(s, i, "-Infinity") -> Ok(JReal("-Infinity"), i + 9)
      [] c = "-" \/ IsDigit(c) -> ScanNumber(s, i)
      [] OTHER -> Fail(i)

\* json.loads(s): [ok |-> FALSE] stands for a raised JSONDecodeError
JsonLoads(s) ==
    LET r == ParseValue(s, SkipWs(s, 1))
    IN  IF r.ok /\ SkipWs(s, r.i) = Len(s) + 1
        THEN [ok |-> TRUE, v |-> r.v]
        ELSE [ok |-> FALSE, v |-> JNull]

\* ------------------------------------------------------------------------
\* evaluate_reasoning_with_model
\* ------------------------------------------------------------------------
REASONING_SCORE_MAP ==
    [k \in {"excellent", "good", "weak", "incorrect", "invalid"} |->
        CASE k = "excellent" -> 4
          [] k = "good" -> 3
          [] k = "weak" -> 2
          [] k = "incorrect" -> 1
          [] OTHER -> 0]

\* faulty variant: the lookup of an unknown label yields -1
ScoreOfDefaultMinusOne(quality) ==
    IF quality \in DOMAIN REASONING_SCORE_MAP THEN REASONING_SCORE_MAP[quality] ELSE 0 - 1

\* REASONING_SCORE_MAP.get(quality, 0)
ScoreOf(quality) ==
    IF quality \in DOMAIN REASONING_SCORE_MAP THEN REASONING_SCORE_MAP[quality] ELSE 0

\* the three fields of the record the prompt embeds; a missing one raises KeyError
PromptKeys == <<"question", "reference_answer", "model_answer">>

BuildPrompt(item) ==
    IF \A i \in 1..Len(PromptKeys) : HasKey(item, PromptKeys[i])
    THEN [raised |-> FALSE,
          text |-> [i \in 1..Len(PromptKeys) |-> DictItem(item, PromptKeys[i])]]
    ELSE [raised |-> TRUE, text |-> <<>>]

\* faulty variant: the except branch leaves the raw response out of the explanation
ExceptVerdictNoRaw(response) ==
    DictSet(DictSet(EmptyDict, "reasoning_quality", JStr("invalid")),
            "explanation", JStr("Model returned non-JSON output"))

\* the verdict the except branch builds
ExceptVerdict(response) ==
    DictSet(DictSet(EmptyDict, "reasoning_quality", JStr("invalid")),
            "explanation", JStr("Model returned non-JSON output: " \o response))

\* faulty variant: the label is used as decoded, without .lower()
TryBlockNoLower(response) ==
    LET r == JsonLoads(response)
        label == DictGet(r.v, "reasoning_quality", JStr("invalid"))
    IN  IF r.ok /\ IsDict(r.v) /\ IsStr(label)
        THEN [path |-> "try", parsed |-> r.v, quality |-> label.s]
        ELSE [path |-> "except", parsed |-> ExceptVerdict(response),
              quality |-> "invalid"]

\* faulty variant: the label is looked up inside the try statement with
\* REASONING_SCORE_MAP[...], so that an unknown label raises KeyError
TryBlockStrict(response) ==
    LET r == JsonLoads(response)
        label == DictGet(r.v, "reasoning_quality", JStr("invalid"))
    IN  IF r.ok /\ IsDict(r.v) /\ IsStr(label)
           /\ Lower(label.s) \in DOMAIN REASONING_SCORE_MAP
        THEN [path |-> "try", parsed |-> r.v, quality |-> Lower(label.s)]
        ELSE [path |-> "except", parsed |-> ExceptVerdict(response),
              quality |-> "invalid"]

\* the try statement: json.loads, .get on the result, .lower() on the label.
\* json.loads raises on undecodable text, .get exists on a dict only and
\* .lower() on a str only; the bare except catches all three.
TryBlock(response) ==
    LET r == JsonLoads(response)
        label == DictGet(r.v, "reasoning_quality", JStr("invalid"))
    IN  IF r.ok /\ IsDict(r.v) /\ IsStr(label)
        THEN [path |-> "try", parsed |-> r.v, quality |-> Lower(label.s)]
        ELSE [path |-> "except", parsed |-> ExceptVerdict(response),
              quality |-> "invalid"]

\* parsed["score"] = REASONING_SCORE_MAP.get(quality, 0)
WithScore(verdict, quality) == DictSet(verdict, "score", JInt(ScoreOf(quality)))

\* faulty variant: generate_answer is called inside the try statement, so that its
\* failure is caught and handled like an undecodable response
AfterCallCaught(r) == [pc |-> "parse", response |-> IF r.raised THEN "" ELSE r.text]

\* where control goes after the call of generate_answer, which stands before
\* the try statement: its exception leaves the function
AfterCall(r) ==
    IF r.raised THEN [pc |-> "failed", response |-> ""]
    ELSE [pc |-> "parse", response |-> r.text]

\* ------------------------------------------------------------------------
\* process_json_file
\* ------------------------------------------------------------------------
CAP == 10

Min(a, b) == IF a < b THEN a ELSE b

\* json.load of a document tree: an object becomes a dict
RECURSIVE Load(_)
RECURSIVE LoadPairs(_, _, _)
LoadPairs(pairs, i, d) ==
    IF i > Len(pairs) THEN d
    ELSE LoadPairs(pairs, i + 1, DictSet(d, pairs[i][1], Load(pairs[i][2])))

Load(v) ==
    CASE v.t = "object" -> LoadPairs(v.pairs, 1, EmptyDict)
      [] v.t = "list" -> JList([i \in 1..Len(v.items) |-> Load(v.items[i])])
      [] OTHER -> v

\* json.dump of a value: a dict becomes an object, members in dict order
RECURSIVE Dump(_)
Dump(v) ==
    CASE v.t = "dict" ->
            JObject([i \in 1..Len(v.keys) |-> <<v.keys[i], Dump(v.vals[i])>>])
      [] v.t = "list" -> JList([i \in 1..Len(v.items) |-> Dump(v.items[i])])
      [] OTHER -> v

\* faulty variant: the loop visits all of results
SliceLenAll(results) == Len(results.items)

\* results[:10] : the positions of results the loop visits
SliceLen(results) == Min(Len(results.items), CAP)

\* faulty variant: the verdict replaces the record instead of joining it
SetEvaluationOnly(item, verdict) == DictSet(EmptyDict, "reasoning_evaluation", verdict)

\* item["reasoning_evaluation"] = reasoning_eval
SetEvaluation(item, verdict) == DictSet(item, "reasoning_evaluation", verdict)

RECURSIVE Sum(_)
Sum(scores) == IF scores = <<>> THEN 0 ELSE Head(scores) + Sum(Tail(scores))

RECURSIVE Gcd(_, _)
Gcd(a, b) == IF b = 0 THEN a ELSE Gcd(b, a % b)

\* a / b for b # 0, kept as the fraction in lowest terms
Quotient(a, b) ==
    [t |-> "float", num |-> a \div Gcd(a, b), den |-> b \div Gcd(a, b)]

\* faulty variant: the sum is divided by the cap instead of the number of scores
MeanOverCap(scores) ==
    IF Len(scores) = 0 THEN [raised |-> TRUE, v |-> JNull]
    ELSE [raised |-> FALSE, v |-> Quotient(Sum(scores), CAP)]

\* faulty variant: an empty list of scores yields 0.0 instead of raising
MeanDefaultZero(scores) ==
    IF Len(scores) = 0 THEN [raised |-> FALSE, v |-> Quotient(0, 1)]
    ELSE [raised |-> FALSE, v |-> Quotient(Sum(scores), Len(scores))]

\* sum(reasoning_scores) / len(reasoning_scores)
Mean(scores) ==
    IF Len(scores) = 0 THEN [raised |-> TRUE, v |-> JNull]
    ELSE [raised |-> FALSE, v |-> Quotient(Sum(scores), Len(scores))]

\* ------------------------------------------------------------------------
\* Inputs: the grader's responses and the input documents
\* ------------------------------------------------------------------------
MaxN == 12

\* the text the prompt asks the grader for, with the given label and explanation
ObjText(label, expl) ==
    "{\"reasoning_quality\": \"" \o label \o "\", \"explanation\": \"" \o expl \o "\"}"

\* labels as they stand between the quotes of the response text
LabelTexts ==
    {"excellent", "good", "weak", "incorrect",
     "Excellent", "EXCELLENT", "eXcElLeNt", "Good", "GOOD", "Weak", "WEAK",
     "Incorrect", "INCORRECT",
     " excellent", "excellent ", " Excellent ", "excellent\\n", "\\tGood", "  weak  ",
     "invalid", "Invalid", "", " ", "great", "excellent/good", "exce llent", "4"}

Explanations == {"ok", "Sound and complete."}

WellFormedResponses == {ObjText(l, e) : l \in LabelTexts, e \in Explanations}

OtherObjectResponses ==
    {"{}",
     "{\"explanation\": \"fine\"}",
     "{\"quality\": \"good\", \"explanation\": \"fine\"}",
     "{\"Reasoning_Quality\": \"good\"}",
     "{\"reasoning_quality\": \"good\"}",
     "{\"explanation\": \"first\", \"reasoning_quality\": \"Weak\"}",
     "  {\"reasoning_quality\":\"GOOD\",\"explanation\":\"x\"}\n",
     "{\"reasoning_quality\": \"good\", \"explanation\": \"x\", \"score\": 9}",
     "{\"score\": 9, \"explanation\": \"x\"}",
     "{\"reasoning_quality\": \"weak\", \"reasoning_quality\": \"Excellent\"}",
     "{\"reasoning_quality\": \"good\", \"explanation\": \"a \\\"b\\\" c\"}",
     "{\"reasoning_quality\": 4, \"explanation\": \"x\"}",
     "{\"reasoning_quality\": null, \"explanation\": \"x\"}",
     "{\"reasoning_quality\": [\"good\"], \"explanation\": \"x\"}",
     "{\"reasoning_quality\": {\"label\": \"good\"}}",
     "{\"reasoning_quality\": true}"}

NonObjectResponses ==
    {"[]", "[{\"reasoning_quality\": \"good\"}]", "\"excellent\"", "4", "-1.5e3",
     "null", "true", "NaN"}

UndecodableResponses ==
    {"", " ", "excellent", "I think the reasoning is good.",
     "Sure! {\"reasoning_quality\": \"good\", \"explanation\": \"x\"}",
     "{\"reasoning_quality\": \"good\", \"explanation\": \"x\"} Done.",
     "{\"reasoning_quality\": \"good\", \"explanation\": \"x\"",
     "{\"reasoning_quality\": \"good\", \"explanation\": \"x\",}",
     "{'reasoning_quality': 'good', 'explanation': 'x'}",
     "{reasoning_quality: \"good\"}",
     "{\"reasoning_quality\": \"good\" \"explanation\": \"x\"}",
     "{\"reasoning_quality\": \"good\", \"explanation\": \"two\nlines\"}",
     "{\"reasoning_quality\": \"go\\od\"}",
     "{\"reasoning_quality\": Excellent}",
     "[1, 2", "01", "nul"}

Responses ==
    WellFormedResponses \cup OtherObjectResponses \cup NonObjectResponses
        \cup UndecodableResponses

\* the responses the grader gives in a batch, one after another
GraderScript ==
    <<ObjText("Excellent", "Sound and complete."),
      ObjText("good", "ok"),
      ObjText("WEAK", "ok"),
      ObjText("incorrect", "ok"),
      "I think the reasoning is good.",
      ObjText(" excellent ", "ok"),
      "{\"explanation\": \"fine\"}">>

\* what the k-th call of generate_answer may do: fail, or return a text
GraderOutcomes(g, k) ==
    {[raised |-> TRUE, text |-> ""],
     [raised |-> FALSE, text |-> GraderScript[((k - 1 + g) % Len(GraderScript)) + 1]]}

IntStr(j) == Digits[(j \div 10) + 1] \o Digits[(j % 10) + 1]

QAPairs(j) ==
    <<<<"question", JStr("question " \o IntStr(j))>>,
      <<"reference_answer", JStr("B")>>,
      <<"model_answer", JStr("Because of X, the answer is B.")>>>>

PriorVerdict ==
    JObject(<<<<"reasoning_quality", JStr("excellent")>>,
              <<"explanation", JStr("from an earlier run")>>,
              <<"score", JInt(4)>>>>)

DocVariants == {"plain", "extra", "rerun", "partial"}

\* the j-th record of results as the upstream stage wrote it
InputRecord(j, variant) ==
    CASE variant = "extra" ->
            JObject(<<<<"id", JInt(j)>>>> \o QAPairs(j)
                    \o <<<<"correct", JBool(j % 2 = 0)>>,
                         <<"tags", JList(<<JStr("mcqa")>>)>>>>)
      [] variant = "rerun" ->
            JObject(<<QAPairs(j)[1], <<"reasoning_evaluation", PriorVerdict>>,
                      QAPairs(j)[2], QAPairs(j)[3]>>)
      [] variant = "partial" /\ j = 3 ->
            JObject(<<QAPairs(j)[1], QAPairs(j)[2]>>)
      [] OTHER -> JObject(QAPairs(j))

InputResults(n, variant) == JList([j \in 1..n |-> InputRecord(j, variant)])

\* an input document with n records; member names are distinct in every object
InputDoc(n, variant) ==
    CASE variant = "extra" ->
            JObject(<<<<"model", JStr("llama70")>>,
                      <<"results", InputResults(n, variant)>>,
                      <<"accuracy", JReal("0.5")>>>>)
      [] variant = "rerun" ->
            JObject(<<<<"reasoning_average_score", JReal("4.0")>>,
                      <<"results", InputResults(n, variant)>>>>)
      [] OTHER -> JObject(<<<<"results", InputResults(n, variant)>>>>)

NoFile == [t |-> "absent"]

\* ------------------------------------------------------------------------
\* State
\* ------------------------------------------------------------------------
VARIABLES
    input_file,         \* the document in the input file
    output_file,        \* the document in the output file, NoFile until written
    grader,             \* which response of GraderScript the first call gets
    calls,              \* the calls of generate_answer: the prompt, and whether it failed
    data,               \* process_json_file: data
    idx,                \* number of records of results[:10] the loop has finished
    reasoning_scores,   \* process_json_file: reasoning_scores
    response,           \* evaluate_reasoning_with_model: response
    parsed,             \* evaluate_reasoning_with_model: parsed
    quality,            \* evaluate_reasoning_with_model: quality
    path,               \* which branch of the try statement ran
    pc,                 \* the statement control stands at
    error               \* the exception that ended the run, "" when none

vars == <<input_file, output_file, grader, calls, data, idx, reasoning_scores,
          response, parsed, quality, path, pc, error>>

batchVars == <<input_file, output_file, grader, calls, data, idx, reasoning_scores, error>>

results == DictItem(data, "results")

\* process_json_file is called with an input file
Init ==
    /\ input_file \in {InputDoc(n, v) : n \in 0..MaxN, v \in DocVariants}
    /\ grader \in 0..(Len(GraderScript) - 1)
    /\ output_file = NoFile
    /\ calls = <<>>
    /\ data = JNull
    /\ idx = 0
    /\ reasoning_scores = <<>>
    /\ response = ""
    /\ parsed = JNull
    /\ quality = ""
    /\ path = ""
    /\ pc = "start"
    /\ error = ""

\* evaluate_reasoning_with_model has received the grader's response
InitInterp ==
    /\ response \in Responses
    /\ input_file = NoFile
    /\ grader = 0
    /\ output_file = NoFile
    /\ calls = <<>>
    /\ data = JNull
    /\ idx = 0
    /\ reasoning_scores = <<>>
    /\ parsed = JNull
    /\ quality = ""
    /\ path = ""
    /\ pc = "parse"
    /\ error = ""

\* ------------------------------------------------------------------------
\* Actions
\* ------------------------------------------------------------------------
\* data = json.load(f)
LoadInput ==
    /\ pc = "start"
    /\ data' = Load(input_file)
    /\ pc' = "loop"
    /\ UNCHANGED <<input_file, output_file, grader, calls, idx, reasoning_scores,
                   response, parsed, quality, path, error>>

\* the loop takes the next item of results[:10], builds the prompt and calls
\* generate_answer
CallGrader ==
    /\ pc = "loop"
    /\ idx < SliceLen(results)
    /\ LET p == BuildPrompt(results.items[idx + 1]) IN
       IF p.raised
       THEN /\ pc' = "failed"
            /\ error' = "KeyError"
            /\ UNCHANGED <<calls, response>>
       ELSE \E r \in GraderOutcomes(grader, Len(calls) + 1) :
                /\ calls' = Append(calls, [prompt |-> p.text, raised |-> r.raised])
                /\ pc' = AfterCall(r).pc
                /\ response' = AfterCall(r).response
                /\ error' = IF AfterCall(r).pc = "failed" THEN "GraderError" ELSE error
    /\ UNCHANGED <<input_file, output_file, grader, data, idx, reasoning_scores,
                   parsed, quality, path>>

\* the try statement
TryParse ==
    /\ pc = "parse"
    /\ parsed' = TryBlock(response).parsed
    /\ quality' = TryBlock(response).quality
    /\ path' = TryBlock(response).path
    /\ pc' = "score"
    /\ UNCHANGED <<batchVars, response>>

\* parsed["score"] = ...; return parsed
AttachScore ==
    /\ pc = "score"
    /\ parsed' = WithScore(parsed, quality)
    /\ pc' = "returned"
    /\ UNCHANGED <<batchVars, response, quality, path>>

\* item["reasoning_evaluation"] = reasoning_eval; reasoning_scores.append(...)
AttachEvaluation ==
    /\ pc = "returned"
    /\ data' = DictSet(data, "results",
                       JList([results.items EXCEPT ![idx + 1] = SetEvaluation(@, parsed)]))
    /\ reasoning_scores' = Append(reasoning_scores, DictItem(parsed, "score").n)
    /\ idx' = idx + 1
    /\ pc' = "loop"
    /\ UNCHANGED <<input_file, output_file, grader, calls, response, parsed,
                   quality, path, error>>

\* avg_score = sum(...) / len(...); data["reasoning_average_score"] = avg_score
ComputeAverage ==
    /\ pc = "loop"
    /\ idx = SliceLen(results)
    /\ IF Mean(reasoning_scores).raised
       THEN /\ pc' = "failed"
            /\ error' = "ZeroDivisionError"
            /\ UNCHANGED data
       ELSE /\ data' = DictSet(data, "reasoning_average_score", Mean(reasoning_scores).v)
            /\ pc' = "averaged"
            /\ UNCHANGED error
    /\ UNCHANGED <<input_file, output_file, grader, calls, idx, reasoning_scores,
                   response, parsed, quality, path>>

\* json.dump(data, f, indent=2, ensure_ascii=False)
WriteOutput ==
    /\ pc = "averaged"
    /\ output_file' = Dump(data)
    /\ pc' = "done"
    /\ UNCHANGED <<input_file, grader, calls, data, idx, reasoning_scores,
                   response, parsed, quality, path, error>>

Next ==
    \/ LoadInput
    \/ CallGrader
    \/ TryParse
    \/ AttachScore
    \/ AttachEvaluation
    \/ ComputeAverage
    \/ WriteOutput

Spec == Init /\ [][Next]_vars

NextInterp ==
    \/ TryParse
    \/ AttachScore

SpecInterp == InitInterp /\ [][NextInterp]_vars

\* ------------------------------------------------------------------------
\* Properties of evaluate_reasoning_with_model (checked under SpecInterp)
\* ------------------------------------------------------------------------
Decoded == JsonLoads(response)

Returned == pc = "returned"

Field(verdict, k) == DictGet(verdict, k, JNull)

\* sub occurs in s
Contains(s, sub) ==
    \/ Len(sub) = 0
    \/ \E i \in 1..(Len(s) - Len(sub) + 1) : SubSeq(s, i, i + Len(sub) - 1) = sub

PyWhitespace == {" ", "\t", "\n", "\r", "\f"}

RECURSIVE StripLeft(_)
StripLeft(s) == IF Len(s) > 0 /\ Ch(s, 1) \in PyWhitespace THEN StripLeft(Tail(s)) ELSE s

RECURSIVE StripRight(_)
StripRight(s) ==
    IF Len(s) > 0 /\ Ch(s, Len(s)) \in PyWhitespace
    THEN StripRight(SubSeq(s, 1, Len(s) - 1))
    ELSE s

\* str.strip()
Strip(s) == StripLeft(StripRight(s))

CanonicalLabels == {"excellent", "good", "weak", "incorrect"}

\* the response decodes as an object that carries a string label
HasStringLabel ==
    /\ Decoded.ok
    /\ IsDict(Decoded.v)
    /\ HasKey(Decoded.v, "reasoning_quality")
    /\ IsStr(DictItem(Decoded.v, "reasoning_quality"))

GraderLabel == DictItem(Decoded.v, "reasoning_quality").s

\* C1: for a response that json.loads cannot decode, the function returns a
\* verdict whose reasoning_quality is "invalid", whose score is 0 and whose
\* explanation contains the raw response text verbatim.
C1_UndecodableGivesInvalid ==
    (Returned /\ ~Decoded.ok) =>
        /\ IsDict(parsed)
        /\ Field(parsed, "reasoning_quality") = JStr("invalid")
        /\ Field(parsed, "score") = JInt(0)
        /\ IsStr(Field(parsed, "explanation"))
        /\ Contains(Field(parsed, "explanation").s, response)

C1_Witness ==
    /\ Returned
    /\ response = "Sure! {\"reasoning_quality\": \"good\", \"explanation\": \"x\"}"
    /\ ~Decoded.ok
    /\ Field(parsed, "score") = JInt(0)

\* C2: the score attached to a verdict is 4 for excellent, 3 for good, 2 for
\* weak, 1 for incorrect and 0 for every other label (among them "invalid",
\* the empty string and arbitrary text); it is always an integer in 0..4.
C2_ScoreTable ==
    Returned =>
        /\ Field(parsed, "score").t = "int"
        /\ Field(parsed, "score").n \in 0..4
        /\ Field(parsed, "score").n =
              CASE quality = "excellent" -> 4
                [] quality = "good" -> 3
                [] quality = "weak" -> 2
                [] quality = "incorrect" -> 1
                [] OTHER -> 0

C2_Witness ==
    /\ Returned
    /\ path = "try"
    /\ quality = ""
    /\ Field(parsed, "score") = JInt(0)

\* C3 as stated: a well-formed response whose label is "excellent" in any
\* letter case, with or without surrounding whitespace, is scored 4.
C3_Original ==
    (Returned /\ HasStringLabel /\ Lower(Strip(GraderLabel)) = "excellent") =>
        Field(parsed, "score") = JInt(4)

\* C3 amended: label matching is case-insensitive and otherwise exact: a label
\* that is "excellent" in any letter case is scored 4, and a label with
\* surrounding whitespace is not stripped and is scored 0.
C3_CaseInsensitiveOnly ==
    (Returned /\ HasStringLabel) =>
        /\ Lower(GraderLabel) = "excellent" =>
              /\ quality = "excellent"
              /\ Field(parsed, "score") = JInt(4)
        /\ Strip(GraderLabel) # GraderLabel => Field(parsed, "score") = JInt(0)

C3_Witness ==
    /\ Returned
    /\ response = ObjText("eXcElLeNt", "ok")
    /\ Field(parsed, "score") = JInt(4)

\* C4: a response that decodes as an object without a reasoning_quality field
\* yields the verdict of the decode-failure path: label "invalid", score 0 and
\* an explanation that embeds the raw response.
C4_MissingFieldGivesInvalid ==
    (Returned /\ Decoded.ok /\ IsDict(Decoded.v)
        /\ ~HasKey(Decoded.v, "reasoning_quality")) =>
        /\ Field(parsed, "reasoning_quality") = JStr("invalid")
        /\ Field(parsed, "score") = JInt(0)
        /\ IsStr(Field(parsed, "explanation"))
        /\ Contains(Field(parsed, "explanation").s, response)

\* C5: a response that decodes as an object whose label is a string outside
\* the four canonical labels (after lowercasing) does not take the
\* decode-failure path: the verdict has score 0 and keeps the grader's label
\* and explanation as they were decoded.
C5_UnknownLabelKeepsExplanation ==
    (Returned /\ HasStringLabel /\ Lower(GraderLabel) \notin CanonicalLabels) =>
        /\ path = "try"
        /\ Field(parsed, "score") = JInt(0)
        /\ Field(parsed, "explanation") = Field(Decoded.v, "explanation")
        /\ Field(parsed, "reasoning_quality") = Field(Decoded.v, "reasoning_quality")

C5_Witness ==
    /\ Returned
    /\ response = ObjText("great", "Sound and complete.")
    /\ Field(parsed, "explanation") = JStr("Sound and complete.")
    /\ Field(parsed, "score") = JInt(0)

\* ------------------------------------------------------------------------
\* Properties of process_json_file (checked under Spec)
\* ------------------------------------------------------------------------
\* the value of member k of a document object
PairValue(obj, k) ==
    obj.pairs[CHOOSE i \in 1..Len(obj.pairs) : obj.pairs[i][1] = k][2]

InputItems == PairValue(input_file, "results").items
OutputItems == PairValue(output_file, "results").items
N == Len(InputItems)

\* what the prompt of an input record embeds
PromptOf(rec) == [i \in 1..Len(PromptKeys) |-> PairValue(rec, PromptKeys[i])]

Evaluation(j) == DictItem(results.items[j], "reasoning_evaluation")

RECURSIVE ScoreSum(_)
ScoreSum(k) == IF k = 0 THEN 0 ELSE DictItem(Evaluation(k), "score").n + ScoreSum(k - 1)

\* every member of inObj stands at the same place in outObj, and with the same
\* value unless its name is exempt
FieldsKept(inObj, outObj, exempt) ==
    /\ outObj.t = "object"
    /\ Len(outObj.pairs) >= Len(inObj.pairs)
    /\ \A i \in 1..Len(inObj.pairs) :
          /\ outObj.pairs[i][1] = inObj.pairs[i][1]
          /\ inObj.pairs[i][1] \notin exempt => outObj.pairs[i][2] = inObj.pairs[i][2]

\* the members of outObj that inObj does not have are named in added
OnlyAdded(inObj, outObj, added) ==
    \A i \in 1..Len(outObj.pairs) : i > Len(inObj.pairs) => outObj.pairs[i][1] \in added

\* C6: for a batch of any length n the grader is called for exactly the first
\* min(n, 10) records, in input order, and never more than 10 times; every
\* record after the tenth stays as it was loaded and is written as it was read.
C6_CapAndOrder ==
    pc # "start" =>
        /\ Len(calls) <= 10
        /\ \A k \in 1..Len(calls) : calls[k].prompt = PromptOf(InputItems[k])
        /\ pc \in {"averaged", "done"} => Len(calls) = Min(N, 10)
        /\ Len(results.items) = N
        /\ \A j \in 11..N : results.items[j] = Load(InputItems[j])
        /\ pc = "done" => \A j \in 11..N : OutputItems[j] = InputItems[j]

C6_Witness ==
    /\ pc = "done"
    /\ N = 12
    /\ Len(calls) = 10
    /\ ~HasKey(results.items[11], "reasoning_evaluation")
    /\ HasKey(results.items[10], "reasoning_evaluation")

\* C7: when reasoning_average_score is attached, every record of the processed
\* subset carries a verdict with a score, the subset is not empty, and the
\* attached value times the number of processed records equals the sum of
\* exactly those records' scores.
C7_MeanOfProcessed ==
    pc \in {"averaged", "done"} =>
        LET k == Min(N, 10)
            avg == Field(data, "reasoning_average_score")
        IN  /\ k > 0
            /\ \A j \in 1..k :
                  /\ HasKey(results.items[j], "reasoning_evaluation")
                  /\ IsDict(Evaluation(j))
                  /\ Field(Evaluation(j), "score").t = "int"
            /\ avg.t = "float"
            /\ avg.den > 0
            /\ avg.num * k = avg.den * ScoreSum(k)

C7_Witness ==
    /\ pc = "averaged"
    /\ reasoning_scores = <<4, 3, 2, 1, 0>>
    /\ Field(data, "reasoning_average_score") = [t |-> "float", num |-> 2, den |-> 1]

\* C8: with an empty results sequence the run ends in ZeroDivisionError when
\* the mean is computed: nothing is attached to data and no output is written.
C8_EmptyBatchFails ==
    (pc # "start" /\ N = 0) =>
        /\ pc \in {"loop", "failed"}
        /\ pc = "loop" => ENABLED ComputeAverage
        /\ pc = "failed" => error = "ZeroDivisionError"
        /\ data = Load(input_file)
        /\ output_file = NoFile

C8_Witness ==
    /\ pc = "failed"
    /\ error = "ZeroDivisionError"
    /\ N = 0
    /\ output_file = NoFile

\* C9: a failed call of the grader ends the run at that record: it is the
\* last call, no step follows, no later record is evaluated, no average is
\* attached and no output is written.
C9_GraderFailurePropagates ==
    (\E k \in 1..Len(calls) : calls[k].raised) =>
        /\ \A k \in 1..Len(calls) : calls[k].raised <=> k = Len(calls)
        /\ pc = "failed"
        /\ error = "GraderError"
        /\ Len(calls) = idx + 1
        /\ Len(reasoning_scores) = idx
        /\ ~ENABLED Next
        /\ Field(data, "reasoning_average_score")
              = Field(Load(input_file), "reasoning_average_score")
        /\ output_file = NoFile

C9_Witness ==
    /\ pc = "failed"
    /\ error = "GraderError"
    /\ N = 12
    /\ idx = 3
    /\ Len(calls) = 4

\* C10 as stated: after a successful run every member of the input document
\* and of every record of results stands in the output at the same place with
\* the same value, and nothing but reasoning_evaluation (on the first ten
\* records) and reasoning_average_score is added.
C10_Original ==
    pc = "done" =>
        /\ FieldsKept(input_file, output_file, {"results"})
        /\ OnlyAdded(input_file, output_file, {"reasoning_average_score"})
        /\ Len(OutputItems) = N
        /\ \A j \in 1..N :
              /\ FieldsKept(InputItems[j], OutputItems[j], {})
              /\ OnlyAdded(InputItems[j], OutputItems[j],
                           IF j <= 10 THEN {"reasoning_evaluation"} ELSE {})

\* C10 amended: the same, except that a reasoning_evaluation member an input
\* record among the first ten already has, and a reasoning_average_score
\* member the input document already has, keep their place and take the new
\* value.
C10_RoundTrip ==
    pc = "done" =>
        /\ FieldsKept(input_file, output_file, {"results", "reasoning_average_score"})
        /\ OnlyAdded(input_file, output_file, {"reasoning_average_score"})
        /\ Len(OutputItems) = N
        /\ \A j \in 1..N :
              /\ FieldsKept(InputItems[j], OutputItems[j],
                            IF j <= 10 THEN {"reasoning_evaluation"} ELSE {})
              /\ OnlyAdded(InputItems[j], OutputItems[j],
                           IF j <= 10 THEN {"reasoning_evaluation"} ELSE {})

C10_Witness ==
    /\ pc = "done"
    /\ N = 12
    /\ Len(input_file.pairs) = 3
    /\ Len(output_file.pairs) = 4
    /\ Len(OutputItems[1].pairs) = Len(InputItems[1].pairs) + 1
    /\ OutputItems[12] = InputItems[12]
====
